---- MODULE Spec2Model ----
(***************************************************************************)
(* A model of tap_github/streams.py: the root RepositoryStream (partition  *)
(* resolution, mode selection, context hand-over to its children) and the  *)
(* four child streams (events, issues, issue_comments, issue_events).      *)
(*                                                                         *)
(* Text is a sequence of symbols.  A symbol is either the separator "/"    *)
(* or a non-empty run of characters that contains no "/" (a chunk such as  *)
(* "octo"), so "octo/hello-world" is <<"octo", "/", "hello-world">>.       *)
(* A python dict is a function whose domain is its set of keys; python's   *)
(* None is the one-key mapping None below, which is no dict of the program.*)
(***************************************************************************)
EXTENDS Integers, Sequences, FiniteSets, TLC

VARIABLES
    config,      \* self.config of the tap: a dict with optional keys
                 \* "searches" and "repositories"
    partsOut,    \* outcome of the last evaluation of RepositoryStream.partitions
    pc,          \* where the sync of the root stream stands
    ctxList,     \* the contexts the root stream is synced for, in order
    pidx,        \* index in ctxList of the partition being synced
    rootReq,     \* the last request of the root stream: url, parameters, context
    rootRecs,    \* records parsed from the last root response, not yet emitted
    rootEmitted, \* number of root records emitted for the current partition
    curRecord,   \* the root record whose children are being synced
    childCtx,    \* the context handed to the children of curRecord
    pending,     \* child streams not yet synced for curRecord
    issueCtxs,   \* child contexts the issues stream derived under curRecord
    lastEntry,   \* the last entry of a child stream: context, fetches, records
    hops,        \* the get_child_context calls of the last step
    error,       \* the exception that ended the sync, "" if none
    rootBody,    \* the body of the last response to the root stream
    lastCall,    \* the last direct call of a stream method and its outcome
    sState,      \* paging of one search partition: "idle", "paging" or "done"
    sTotal,      \* number of matches the upstream has and reports (total_count)
    sToken,      \* the next page token, 0 for None
    sRequests,   \* pages requested for the search partition so far
    sYielded,    \* records yielded for the search partition so far
    bStream,     \* the stream whose bookmarks are tracked, "" if none
    bookmarks,   \* bookmark of bStream per state partition context
    lastObs,     \* the last record observed by the tracker, and its context
    heap,        \* the context dicts alive, by reference (index)
    derived      \* the get_child_context calls made on the heap, in order

varsCfg == <<config, partsOut>>
varsRun == <<pc, ctxList, pidx, rootReq, rootRecs, rootEmitted, curRecord,
             childCtx, pending, issueCtxs, lastEntry, hops, error, rootBody>>
varsCalls == <<lastCall>>
varsSearch == <<sState, sTotal, sToken, sRequests, sYielded>>
varsBook == <<bStream, bookmarks, lastObs>>
varsHeap == <<heap, derived>>
varsAside == <<varsSearch, varsBook, varsHeap>>
vars == <<varsCfg, varsRun, varsCalls, varsAside>>

----------------------------------------------------------------------------
(* Bounds of the model                                                     *)

MaxChars == 5        \* symbols in all the strings of `repositories` together
MaxEntries == 2      \* entries of `searches` and `repositories` together
MaxItems == 2        \* matches in one page of a search response
MaxRecs == 2         \* records the upstream returns to one child stream sync
MaxTotal == 1200     \* matches the upstream has for a search query
MaxTime == 2         \* replication key values (timestamps) 1..MaxTime
MaxObjs == 3         \* context dicts alive at a time
MaxCalls == 3        \* get_child_context calls on the context dicts

----------------------------------------------------------------------------
(* Values                                                                  *)

Slash == "/"
Chunks == {"octo", "hello-world"}
Symbols == Chunks \cup {Slash}

None == [None |-> TRUE]
EmptyDict == [k \in {} |-> 0]

Return(v) == [kind |-> "return", value |-> v]
ReturnNone == [kind |-> "return_none"]
Raise(e) == [kind |-> "raise", error |-> e]
Unset == [kind |-> "unset"]

StringsUpTo(n) == UNION {[1..k -> Symbols] : k \in 0..n}

SearchEntries == {[name |-> "n1", query |-> "q1"], [name |-> "n2", query |-> "q2"]}
SearchLists(n) == UNION {[1..k -> SearchEntries] : k \in 0..n}

\* cfg ranges over the configurations: no key, `searches`, `repositories`
\* or both, with at most n further entries and c further symbols
RECURSIVE AddRepositories(_, _, _, _)
AddRepositories(cfg, base, n, c) ==
    \/ cfg = base
    \/ /\ n > 0
       /\ \E s \in StringsUpTo(c) :
             AddRepositories(cfg,
                 [base EXCEPT !.repositories = Append(@, s)], n - 1, c - Len(s))

IsConfig(cfg) ==
    \/ cfg = EmptyDict
    \/ AddRepositories(cfg, [repositories |-> <<>>], MaxEntries, MaxChars)
    \/ \E ss \in SearchLists(MaxEntries) :
          \/ cfg = [searches |-> ss]
          \/ AddRepositories(cfg, [searches |-> ss, repositories |-> <<>>],
                             MaxEntries - Len(ss), MaxChars)

----------------------------------------------------------------------------
(* RepositoryStream.partitions                                             *)

\* str.split("/"): the maximal runs between separators, one more than the
\* number of separators (the empty string gives one empty segment)
RECURSIVE split(_)
split(s) ==
    IF s = <<>> THEN << <<>> >>
    ELSE LET rest == split(Tail(s))
         IN  IF Head(s) = Slash
             THEN << <<>> >> \o rest
             ELSE << <<Head(s)>> \o Head(rest) >> \o Tail(rest)

\* a slip: `repositories` is looked at before `searches`
partitions_repositories_first(cfg) ==
    IF "repositories" \in DOMAIN cfg
    THEN LET split_repo_names ==
                 [i \in 1..Len(cfg.repositories) |-> split(cfg.repositories[i])]
         IN  IF \E i \in 1..Len(split_repo_names) : Len(split_repo_names[i]) < 2
             THEN Raise("IndexError")
             ELSE Return([i \in 1..Len(split_repo_names) |->
                            [org |-> split_repo_names[i][1],
                             repo |-> split_repo_names[i][2]]])
    ELSE IF "searches" \in DOMAIN cfg
    THEN Return([i \in 1..Len(cfg.searches) |->
                    [search_name |-> cfg.searches[i].name,
                     search_query |-> cfg.searches[i].query]])
    ELSE ReturnNone

\* the property `partitions`: a list of dicts, None, or the IndexError that
\* r[1] raises on a string without separator
partitions(cfg) ==
    IF "searches" \in DOMAIN cfg
    THEN Return([i \in 1..Len(cfg.searches) |->
                    [search_name |-> cfg.searches[i].name,
                     search_query |-> cfg.searches[i].query]])
    ELSE IF "repositories" \in DOMAIN cfg
    THEN LET split_repo_names ==
                 [i \in 1..Len(cfg.repositories) |-> split(cfg.repositories[i])]
         IN  IF \E i \in 1..Len(split_repo_names) : Len(split_repo_names[i]) < 2
             THEN Raise("IndexError")
             ELSE Return([i \in 1..Len(split_repo_names) |->
                            [org |-> split_repo_names[i][1],
                             repo |-> split_repo_names[i][2]]])
    ELSE ReturnNone

----------------------------------------------------------------------------
(* RepositoryStream: mode selection                                        *)

\* Search API max: 100 per page, 1,000 total
MAX_PER_PAGE == 100

\* a slip: a zero too many in the ceiling
MAX_RESULTS_LIMIT_tenfold == MAX_PER_PAGE * 100

MAX_RESULTS_LIMIT == 1000

SearchPath == <<"/", "search", "/", "repositories">>

path(cfg) ==
    IF "searches" \in DOMAIN cfg
    THEN SearchPath
    ELSE <<"/", "repos", "/", "{org}", "/", "{repo}">>

\* a slip: the locator follows `repositories` instead of `searches`
records_jsonpath_by_repositories(cfg) ==
    IF "repositories" \in DOMAIN cfg THEN "$[*]" ELSE "$.items[*]"

records_jsonpath(cfg) ==
    IF "searches" \in DOMAIN cfg THEN "$.items[*]" ELSE "$[*]"

\* the url of a request: every "{key}" of the path is replaced by the value
\* the context has for key
RECURSIVE fill(_, _)
fill(template, context) ==
    IF template = <<>> THEN <<>>
    ELSE LET h == Head(template)
             key == IF h = "{org}" THEN "org" ELSE IF h = "{repo}" THEN "repo" ELSE ""
         IN  (IF key # "" /\ context # None /\ key \in DOMAIN context
              THEN context[key] ELSE <<h>>) \o fill(Tail(template), context)

get_url(cfg, context) == fill(path(cfg), context)

\* what a locator selects in a response body: "$.items[*]" every element of
\* the array `items`, "$[*]" every member of the body
extract_jsonpath(locator, body) ==
    IF locator = "$.items[*]"
    THEN IF "items" \in DOMAIN body THEN body.items ELSE <<>>
    ELSE IF DOMAIN body = {"owner", "name"} THEN <<body.owner, body.name>>
    ELSE IF DOMAIN body = {"items"} THEN <<body.items>>
    ELSE <<>>

parse_response(cfg, body) ==
    IF "searches" \in DOMAIN cfg
    THEN extract_jsonpath(records_jsonpath(cfg), body)
    ELSE <<body>>

\* the parameters of the base stream: the page size and, after the first
\* page, the page number (next_page_token 0 stands for None: the first page)
GitHubStream_get_url_params(context, next_page_token) ==
    IF next_page_token = 0
    THEN [per_page |-> MAX_PER_PAGE]
    ELSE [per_page |-> MAX_PER_PAGE, page |-> next_page_token]

\* a slip: no assertion, a missing context is taken for "not search mode"
get_url_params_unasserted(context, next_page_token) ==
    LET params == GitHubStream_get_url_params(context, next_page_token)
    IN  IF context # None /\ "search_query" \in DOMAIN context
        THEN Return([k \in DOMAIN params \cup {"q"} |->
                       IF k = "q" THEN context["search_query"] ELSE params[k]])
        ELSE Return(params)

get_url_params(context, next_page_token) ==
    IF context = None
    THEN Raise("AssertionError")
    ELSE LET params == GitHubStream_get_url_params(context, next_page_token)
         IN  IF "search_query" \in DOMAIN context
             THEN Return([k \in DOMAIN params \cup {"q"} |->
                            IF k = "q" THEN context["search_query"] ELSE params[k]])
             ELSE Return(params)

----------------------------------------------------------------------------
(* Context hand-over                                                       *)

\* a slip: org and repo are taken from the partition context when it has them
RepositoryStream_get_child_context_from_partition(record, context) ==
    IF "owner" \notin DOMAIN record \/ "name" \notin DOMAIN record
    THEN Raise("KeyError")
    ELSE IF context # None /\ {"org", "repo"} \subseteq DOMAIN context
    THEN Return([org |-> context["org"], repo |-> context["repo"]])
    ELSE Return([org |-> record["owner"]["login"], repo |-> record["name"]])

RepositoryStream_get_child_context(record, context) ==
    IF "owner" \notin DOMAIN record \/ "name" \notin DOMAIN record
    THEN Raise("KeyError")
    ELSE Return([org |-> record["owner"]["login"], repo |-> record["name"]])

\* python: d[k] = v on the dict d
SetItem(d, k, v) == [x \in DOMAIN d \cup {k} |-> IF x = k THEN v ELSE d[x]]

\* a slip: the child context is built from the record alone
IssuesStream_get_child_context_fresh(record, context) ==
    IF context = None
    THEN [kind |-> "raise", error |-> "ValueError", mapping |-> None]
    ELSE [kind |-> "return", mapping |-> context,
          value |-> [issue_number |-> record["number"],
                     comments |-> record["comments"]]]

\* `mapping` is the dict `context` as the call leaves it: the call writes
\* into the dict it was given and returns that same dict
IssuesStream_get_child_context(record, context) ==
    IF context = None
    THEN [kind |-> "raise", error |-> "ValueError", mapping |-> None]
    ELSE IF "number" \notin DOMAIN record
    THEN [kind |-> "raise", error |-> "KeyError", mapping |-> context]
    ELSE LET c1 == SetItem(context, "issue_number", record["number"])
         IN  IF "comments" \notin DOMAIN record
             THEN [kind |-> "raise", error |-> "KeyError", mapping |-> c1]
             ELSE LET c2 == SetItem(c1, "comments", record["comments"])
                  IN  [kind |-> "return", value |-> c2, mapping |-> c2]

----------------------------------------------------------------------------
(* Child streams                                                           *)

ChildStreams == {"events", "issues", "issue_comments", "issue_events"}

\* parent_stream_type of every child stream
parent_stream_type ==
    [s \in ChildStreams |-> "repositories"]

\* python: `if context`: None and the empty dict are false
truthy(context) == context # None /\ DOMAIN context # {}

\* the get_records of the base stream: one fetch of the stream's path, which
\* yields what the upstream returns
GitHubStream_get_records(context, upstream) ==
    [records |-> upstream, fetches |-> 1]

Skipped == [records |-> <<>>, fetches |-> 0]

EventsStream_get_records(context, upstream) ==
    IF truthy(context) /\ "events" \in DOMAIN context /\ context["events"] = 0
    THEN Skipped
    ELSE GitHubStream_get_records(context, upstream)

IssueCommentsStream_get_records(context, upstream) ==
    IF truthy(context) /\ "comments" \in DOMAIN context /\ context["comments"] = 0
    THEN Skipped
    ELSE GitHubStream_get_records(context, upstream)

\* a slip: the gate of issue_comments copied without changing the key
IssueEventsStream_get_records_comments_key(context, upstream) ==
    IF truthy(context) /\ "comments" \in DOMAIN context /\ context["comments"] = 0
    THEN Skipped
    ELSE GitHubStream_get_records(context, upstream)

IssueEventsStream_get_records(context, upstream) ==
    IF truthy(context) /\ "events" \in DOMAIN context /\ context["events"] = 0
    THEN Skipped
    ELSE GitHubStream_get_records(context, upstream)

get_records(stream, context, upstream) ==
    IF stream = "events" THEN EventsStream_get_records(context, upstream)
    ELSE IF stream = "issue_comments"
    THEN IssueCommentsStream_get_records(context, upstream)
    ELSE IF stream = "issue_events"
    THEN IssueEventsStream_get_records(context, upstream)
    ELSE GitHubStream_get_records(context, upstream)

----------------------------------------------------------------------------
(* Record post-processing                                                  *)

\* python: d.pop(k) on a dict d that has the key k: d without k
DelItem(d, k) == [x \in DOMAIN d \ {k} |-> d[x]]

\* a slip: org is copied to target_org and left in place
EventsStream_post_process_keeps_org(row) ==
    IF "repo" \notin DOMAIN row
    THEN [kind |-> "raise", error |-> "KeyError", row |-> row]
    ELSE LET r1 == SetItem(DelItem(row, "repo"), "target_repo", row["repo"])
         IN  IF "org" \notin DOMAIN r1
             THEN [kind |-> "raise", error |-> "KeyError", row |-> r1]
             ELSE LET r2 == SetItem(r1, "target_org", r1["org"])
                  IN  [kind |-> "return", value |-> r2, row |-> r2]

\* EventsStream.post_process: row.pop("repo") is stored under target_repo,
\* then row.pop("org") under target_org, and the dict it was given is
\* returned; pop raises KeyError on a missing key.  `row` is the dict `row`
\* as the call leaves it
EventsStream_post_process(row) ==
    IF "repo" \notin DOMAIN row
    THEN [kind |-> "raise", error |-> "KeyError", row |-> row]
    ELSE LET r1 == SetItem(DelItem(row, "repo"), "target_repo", row["repo"])
         IN  IF "org" \notin DOMAIN r1
             THEN [kind |-> "raise", error |-> "KeyError", row |-> r1]
             ELSE LET r2 == SetItem(DelItem(r1, "org"), "target_org", r1["org"])
                  IN  [kind |-> "return", value |-> r2, row |-> r2]

----------------------------------------------------------------------------
(* What the upstream can answer                                            *)

RepoRecords ==
    {[owner |-> [login |-> <<"octo">>], name |-> <<"hello-world">>],
     [owner |-> [login |-> <<"acme">>], name |-> <<"api">>]}

IssueRecords ==
    {[number |-> 1, comments |-> 0], [number |-> 2, comments |-> 5]}

SearchBodies == {[items |-> m] : m \in UNION {[1..k -> RepoRecords] : k \in 0..MaxItems}}

\* the body the upstream answers to a request of the root stream
RootBodies(url) == IF url = SearchPath THEN SearchBodies ELSE RepoRecords

\* the records the upstream answers to the fetch of a child stream
Upstream(stream) ==
    IF stream = "issues"
    THEN UNION {[1..k -> IssueRecords] : k \in 0..MaxRecs}
    ELSE {[i \in 1..k |-> [id |-> i]] : k \in 0..MaxRecs}

\* the sub-objects an events record names its repository and its org by
RepoObjs == {[id |-> 1], [id |-> 2]}
OrgObjs == {[id |-> 1], [id |-> 3]}

EventKeys == {"id", "type", "repo", "org", "target_repo"}

\* the events records the upstream can answer: well formed ones, and ones
\* with any of the fields missing or with a target_repo of their own
EventRows ==
    {[k \in K |-> full[k]] :
        full \in [id : {1, 2}, type : {"PushEvent"}, repo : RepoObjs,
                  org : OrgObjs, target_repo : RepoObjs],
        K \in SUBSET EventKeys}

----------------------------------------------------------------------------
(* The sync of the stream graph: the root stream per partition, and under  *)
(* every root record its child streams.  Contexts are handed over by       *)
(* value: a stream works on its own copy of the context it is entered      *)
(* with, so what IssuesStream.get_child_context writes into its context    *)
(* reaches the next hop of the issues stream and no sibling stream.  The   *)
(* child streams of a root record are synced in any order.                 *)

OctoHelloWorld == <<"octo", "/", "hello-world">>

RunConfigs ==
    {EmptyDict,
     [repositories |-> <<OctoHelloWorld>>],
     [repositories |-> <<OctoHelloWorld, <<"hello-world", "/", "octo">> >>],
     [repositories |-> <<OctoHelloWorld, <<"octo">> >>],
     [searches |-> <<[name |-> "n1", query |-> "q1"]>>],
     [searches |-> <<[name |-> "n1", query |-> "q1"], [name |-> "n2", query |-> "q2"]>>,
      repositories |-> <<OctoHelloWorld>>]}

IdleRun ==
    /\ pc = "idle"
    /\ ctxList = <<>>
    /\ pidx = 0
    /\ rootReq = Unset
    /\ rootRecs = <<>>
    /\ rootEmitted = 0
    /\ curRecord = Unset
    /\ childCtx = Unset
    /\ pending = {}
    /\ issueCtxs = {}
    /\ lastEntry = Unset
    /\ hops = <<>>
    /\ error = ""
    /\ rootBody = Unset

IdleCalls == lastCall = Unset

IdleSearch ==
    /\ sState = "idle"
    /\ sTotal = 0
    /\ sToken = 0
    /\ sRequests = 0
    /\ sYielded = 0

IdleBook ==
    /\ bStream = ""
    /\ bookmarks = EmptyDict
    /\ lastObs = Unset

IdleHeap ==
    /\ heap = <<>>
    /\ derived = <<>>

\* the tap is either run (pc = "start") or its stream methods are called
\* one by one (pc = "calls")
Init ==
    /\ \/ pc = "start" /\ config \in RunConfigs
       \/ pc = "calls" /\ config = EmptyDict
    /\ partsOut = Unset
    /\ ctxList = <<>>
    /\ pidx = 0
    /\ rootReq = Unset
    /\ rootRecs = <<>>
    /\ rootEmitted = 0
    /\ curRecord = Unset
    /\ childCtx = Unset
    /\ pending = {}
    /\ issueCtxs = {}
    /\ lastEntry = Unset
    /\ hops = <<>>
    /\ error = ""
    /\ rootBody = Unset
    /\ IdleCalls
    /\ IdleSearch
    /\ IdleBook
    /\ IdleHeap

Abort(e) ==
    /\ pc' = "aborted"
    /\ error' = e

\* the root stream is synced for each of its partitions or, without
\* partitions, once with no context
StartSync ==
    /\ pc = "start"
    /\ partsOut' = partitions(config)
    /\ IF partsOut'.kind = "raise"
       THEN /\ Abort(partsOut'.error)
            /\ UNCHANGED <<ctxList, pidx>>
       ELSE /\ ctxList' = IF partsOut'.kind = "return_none" \/ partsOut'.value = <<>>
                          THEN <<None>>
                          ELSE partsOut'.value
            /\ pidx' = 1
            /\ pc' = "partition"
            /\ UNCHANGED error
    /\ UNCHANGED <<config, rootReq, rootRecs, rootEmitted, curRecord, childCtx,
                   pending, issueCtxs, lastEntry, hops, rootBody, varsCalls, varsAside>>

\* one request of the root stream for the current partition and the parse
\* of its response
RootFetch ==
    /\ pc = "partition"
    /\ LET context == ctxList[pidx]
           params == get_url_params(context, 0)
       IN  IF params.kind = "raise"
           THEN /\ Abort(params.error)
                /\ UNCHANGED <<rootReq, rootRecs, rootEmitted, rootBody>>
           ELSE \E body \in RootBodies(get_url(config, context)) :
                  /\ rootReq' = [url |-> get_url(config, context),
                                 params |-> params.value, context |-> context]
                  /\ rootBody' = body
                  /\ rootRecs' = parse_response(config, body)
                  /\ rootEmitted' = 0
                  /\ pc' = "records"
                  /\ UNCHANGED error
    /\ UNCHANGED <<varsCfg, ctxList, pidx, curRecord, childCtx, pending,
                   issueCtxs, lastEntry, hops, varsCalls, varsAside>>

\* the next root record is emitted and the context of its children derived
RootRecord ==
    /\ pc = "records"
    /\ rootRecs # <<>>
    /\ LET record == Head(rootRecs)
           child == RepositoryStream_get_child_context(record, ctxList[pidx])
       IN  IF child.kind = "raise"
           THEN /\ Abort(child.error)
                /\ UNCHANGED <<rootRecs, rootEmitted, curRecord, childCtx,
                               pending, issueCtxs, lastEntry, hops>>
           ELSE /\ rootRecs' = Tail(rootRecs)
                /\ rootEmitted' = rootEmitted + 1
                /\ curRecord' = record
                /\ childCtx' = child.value
                /\ hops' = <<[stream |-> "repositories",
                              parent |-> ctxList[pidx], child |-> child.value]>>
                /\ pending' = {s \in ChildStreams :
                                  parent_stream_type[s] = "repositories"}
                /\ issueCtxs' = {}
                /\ lastEntry' = Unset
                /\ pc' = "children"
                /\ UNCHANGED error
    /\ UNCHANGED <<varsCfg, ctxList, pidx, rootReq, rootBody, varsCalls, varsAside>>

\* the hops of the issues stream over its records, each from the context
\* the previous one returned
RECURSIVE IssueHops(_, _)
IssueHops(records, context) ==
    IF records = <<>> THEN <<>>
    ELSE LET out == IssuesStream_get_child_context(Head(records), context)
         IN  <<[stream |-> "issues", parent |-> context, child |-> out.value]>>
             \o IssueHops(Tail(records), out.value)

\* a child stream is entered with the context its parent derived
SyncChild(s) ==
    /\ pc = "children"
    /\ s \in pending
    /\ \E upstream \in Upstream(s) :
         LET out == get_records(s, childCtx, upstream)
             made == IF s = "issues" THEN IssueHops(out.records, childCtx) ELSE <<>>
         IN  /\ lastEntry' = [stream |-> s, context |-> childCtx,
                              fetches |-> out.fetches, records |-> out.records]
             /\ hops' = made
             /\ issueCtxs' = issueCtxs \cup {made[i].child : i \in 1..Len(made)}
    /\ pending' = pending \ {s}
    /\ UNCHANGED <<varsCfg, pc, ctxList, pidx, rootReq, rootRecs, rootEmitted,
                   curRecord, childCtx, error, rootBody, varsCalls, varsAside>>

RecordDone ==
    /\ pc = "children"
    /\ pending = {}
    /\ pc' = "records"
    /\ UNCHANGED <<varsCfg, ctxList, pidx, rootReq, rootRecs, rootEmitted,
                   curRecord, childCtx, pending, issueCtxs, lastEntry, hops, error,
                   rootBody, varsCalls, varsAside>>

PartitionDone ==
    /\ pc = "records"
    /\ rootRecs = <<>>
    /\ pidx' = pidx + 1
    /\ pc' = IF pidx + 1 > Len(ctxList) THEN "done" ELSE "partition"
    /\ UNCHANGED <<varsCfg, ctxList, rootReq, rootRecs, rootEmitted, curRecord,
                   childCtx, pending, issueCtxs, lastEntry, hops, error, rootBody,
                   varsCalls, varsAside>>

----------------------------------------------------------------------------
(* Direct calls of the stream methods, as a test or another caller makes   *)
(* them, each with a context of the caller's choice.                       *)

RepoContexts == {[org |-> r.owner.login, repo |-> r.name] : r \in RepoRecords}

Counters == {0, 5}

\* contexts a caller can pass: every combination of the counter keys
\* `events` and `comments` absent, zero or nonzero
CallContexts ==
    {EmptyDict, [search_name |-> "n1", search_query |-> "q1"]}
    \cup RepoContexts
    \cup {[events |-> e] : e \in Counters}
    \cup {[comments |-> c] : c \in Counters}
    \cup {[org |-> <<"octo">>, repo |-> <<"hello-world">>, events |-> e] :
             e \in Counters}
    \cup {[org |-> <<"octo">>, repo |-> <<"hello-world">>, comments |-> c] :
             c \in Counters}
    \cup {[org |-> <<"octo">>, repo |-> <<"hello-world">>, events |-> e,
           comments |-> c] : e \in Counters, c \in Counters}

CallGetRecords(s, context, upstream) ==
    /\ pc = "calls"
    /\ lastCall' = [op |-> "get_records", stream |-> s, context |-> context,
                    upstream |-> upstream,
                    out |-> get_records(s, context, upstream)]
    /\ UNCHANGED <<varsCfg, varsRun, varsAside>>

CallGetUrlParams(context, next_page_token) ==
    /\ pc = "calls"
    /\ lastCall' = [op |-> "get_url_params", stream |-> "repositories",
                    context |-> context,
                    out |-> get_url_params(context, next_page_token)]
    /\ UNCHANGED <<varsCfg, varsRun, varsAside>>

CallGetChildContext(record, context) ==
    /\ pc = "calls"
    /\ lastCall' = [op |-> "get_child_context", stream |-> "issues",
                    context |-> context, record |-> record,
                    out |-> IssuesStream_get_child_context(record, context)]
    /\ UNCHANGED <<varsCfg, varsRun, varsAside>>

CallPostProcess(row) ==
    /\ pc = "calls"
    /\ lastCall' = [op |-> "post_process", stream |-> "events", row |-> row,
                    out |-> EventsStream_post_process(row)]
    /\ UNCHANGED <<varsCfg, varsRun, varsAside>>

Calls ==
    \/ \E s \in ChildStreams, context \in CallContexts \cup {None} :
          \E upstream \in Upstream(s) : CallGetRecords(s, context, upstream)
    \/ \E context \in CallContexts \cup {None}, t \in 0..1 :
          CallGetUrlParams(context, t)
    \/ \E record \in IssueRecords, context \in CallContexts \cup {None} :
          CallGetChildContext(record, context)
    \/ \E row \in EventRows : CallPostProcess(row)

Next ==
    \/ StartSync
    \/ RootFetch
    \/ RootRecord
    \/ \E s \in ChildStreams : SyncChild(s)
    \/ RecordDone
    \/ PartitionDone
    \/ Calls

Spec == Init /\ [][Next]_vars

----------------------------------------------------------------------------
(* Paging of one search partition of the root stream                       *)

\* the token of the page after `previous_token` (0 for None, the first page):
\* none once the pages requested cover MAX_RESULTS_LIMIT results or the last
\* page came back empty
GitHubStream_get_next_page_token(results, previous_token) ==
    LET page == IF previous_token = 0 THEN 1 ELSE previous_token
    IN  IF page * MAX_PER_PAGE >= MAX_RESULTS_LIMIT THEN 0
        ELSE IF results = 0 THEN 0
        ELSE page + 1

SearchContext == [search_name |-> "n1", search_query |-> "q1"]

Smaller(a, b) == IF a < b THEN a ELSE b

\* how many of its sTotal matches the upstream returns for a page
UpstreamPage(params) ==
    LET page == IF "page" \in DOMAIN params THEN params["page"] ELSE 1
        left == sTotal - (page - 1) * params["per_page"]
    IN  IF left < 0 THEN 0 ELSE Smaller(left, params["per_page"])

InitSearch ==
    /\ config = [searches |-> <<[name |-> "n1", query |-> "q1"]>>]
    /\ partsOut = Unset
    /\ IdleRun
    /\ IdleCalls
    /\ IdleBook
    /\ IdleHeap
    /\ sState = "paging"
    /\ sTotal \in 0..MaxTotal
    /\ sToken = 0
    /\ sRequests = 0
    /\ sYielded = 0

\* one page is requested and its records are yielded
SearchPage ==
    /\ sState = "paging"
    /\ LET params == get_url_params(SearchContext, sToken).value
           results == UpstreamPage(params)
           token == GitHubStream_get_next_page_token(results, sToken)
       IN  /\ sRequests' = sRequests + 1
           /\ sYielded' = sYielded + results
           /\ sToken' = token
           /\ sState' = IF token = 0 THEN "done" ELSE "paging"
    /\ UNCHANGED <<varsCfg, varsRun, varsCalls, varsBook, varsHeap, sTotal>>

NextSearch == SearchPage

SpecSearch == InitSearch /\ [][NextSearch]_vars

----------------------------------------------------------------------------
(* Bookmarks of a stream with a replication key                            *)

ReplStreams == {"events", "issues", "issue_comments", "issue_events"}

replication_key ==
    [s \in ReplStreams |->
        IF s \in {"events", "issue_events"} THEN "created_at" ELSE "updated_at"]

\* a slip: the bookmarks are keyed by the org alone
state_partitioning_keys_org_only(stream) == {"org"}

state_partitioning_keys(stream) == {"repo", "org"}

\* the part of a context that identifies the partition of a bookmark
get_state_partition_context(stream, context) ==
    [k \in DOMAIN context \cap state_partitioning_keys(stream) |-> context[k]]

Orgs == {<<"octo">>, <<"acme">>}
Repos == {<<"hello-world">>, <<"api">>}
RepoPartitions == {[org |-> o, repo |-> r] : o \in Orgs, r \in Repos}

\* the contexts records are observed under: the one of a repository, with or
\* without further keys
BookContexts ==
    RepoPartitions
    \cup {[org |-> <<"octo">>, repo |-> <<"hello-world">>,
           issue_number |-> 1, comments |-> 0]}

\* the bookmark kept for the partition of `context`, 0 when there is none
BookmarkOf(marks, context) ==
    LET key == get_state_partition_context(bStream, context)
    IN  IF key \in DOMAIN marks THEN marks[key] ELSE 0

InitBookmarks ==
    /\ config = EmptyDict
    /\ partsOut = Unset
    /\ IdleRun
    /\ IdleCalls
    /\ IdleSearch
    /\ IdleHeap
    /\ bStream \in ReplStreams
    /\ bookmarks = EmptyDict
    /\ lastObs = Unset

\* a record of bStream is accepted under `context`: the bookmark of its
\* partition is raised when the record's replication key value is greater
Observe(context, t) ==
    /\ bStream \in ReplStreams
    /\ LET record == (replication_key[bStream] :> t)
           key == get_state_partition_context(bStream, context)
           value == record[replication_key[bStream]]
       IN  /\ bookmarks' = IF key \notin DOMAIN bookmarks \/ value > bookmarks[key]
                           THEN [k \in DOMAIN bookmarks \cup {key} |->
                                    IF k = key THEN value ELSE bookmarks[k]]
                           ELSE bookmarks
           /\ lastObs' = [context |-> context, record |-> record, value |-> value]
    /\ UNCHANGED <<varsCfg, varsRun, varsCalls, varsSearch, varsHeap, bStream>>

NextBookmarks == \E context \in BookContexts, t \in 1..MaxTime : Observe(context, t)

SpecBookmarks == InitBookmarks /\ [][NextBookmarks]_vars

----------------------------------------------------------------------------
(* Partition resolution on every configuration                             *)

InitPartitions ==
    /\ IsConfig(config)
    /\ partsOut = Unset
    /\ IdleRun
    /\ IdleCalls
    /\ IdleSearch
    /\ IdleBook
    /\ IdleHeap

Partitions ==
    /\ partsOut = Unset
    /\ partsOut' = partitions(config)
    /\ UNCHANGED <<config, varsRun, varsCalls, varsAside>>

NextPartitions == Partitions

SpecPartitions == InitPartitions /\ [][NextPartitions]_vars

----------------------------------------------------------------------------
(* Context dicts by reference: the issues stream derives child contexts    *)
(* under one repository context.  A context is an object of the heap, and  *)
(* whoever holds its reference sees what a later call writes into it.      *)

\* the repository context the root stream handed over is the first object
InitContexts ==
    /\ config = EmptyDict
    /\ partsOut = Unset
    /\ IdleRun
    /\ IdleCalls
    /\ IdleSearch
    /\ IdleBook
    /\ heap \in {<<c>> : c \in RepoContexts}
    /\ derived = <<>>

\* IssuesStream.get_child_context(record, context) with the dict at `ref`
\* for context: the call leaves that dict as `mapping` and returns the
\* reference it was given
DeriveChild(record, ref) ==
    /\ Len(derived) < MaxCalls
    /\ ref \in 1..Len(heap)
    /\ LET out == IssuesStream_get_child_context(record, heap[ref])
       IN  /\ heap' = [heap EXCEPT ![ref] = out.mapping]
           /\ derived' = Append(derived,
                  [record |-> record, context |-> ref, before |-> heap[ref],
                   child |-> IF out.kind = "return" THEN ref ELSE 0])
    /\ UNCHANGED <<varsCfg, varsRun, varsCalls, varsSearch, varsBook>>

\* the caller takes a copy of a context it holds
CopyContext(ref) ==
    /\ Len(heap) < MaxObjs
    /\ ref \in 1..Len(heap)
    /\ heap' = Append(heap, heap[ref])
    /\ UNCHANGED <<varsCfg, varsRun, varsCalls, varsSearch, varsBook, derived>>

NextContexts ==
    \/ \E record \in IssueRecords, ref \in 1..MaxObjs : DeriveChild(record, ref)
    \/ \E ref \in 1..MaxObjs : CopyContext(ref)

SpecContexts == InitContexts /\ [][NextContexts]_vars

----------------------------------------------------------------------------
(* Properties of partition resolution (SpecPartitions)                     *)

SlashPositions(s) == {i \in 1..Len(s) : s[i] = Slash}
Least(S) == CHOOSE x \in S : \A y \in S : x <= y
\* the text before the first "/" of s
BeforeFirstSlash(s) == SubSeq(s, 1, Least(SlashPositions(s)) - 1)
\* the text between the first "/" of s and the next one, or the end of s
AfterFirstSlash(s) ==
    LET f == Least(SlashPositions(s))
        later == {i \in SlashPositions(s) : i > f}
    IN  SubSeq(s, f + 1, IF later = {} THEN Len(s) ELSE Least(later) - 1)

SearchPartitionsInOrder ==
    /\ partsOut.kind = "return"
    /\ Len(partsOut.value) = Len(config.searches)
    /\ \A i \in 1..Len(config.searches) :
          partsOut.value[i] = [search_name |-> config.searches[i].name,
                               search_query |-> config.searches[i].query]

\* C1 as stated: partitions returns one {search_name, search_query} per search
\* in order when `searches` is present, whatever `repositories` holds;
\* otherwise one {org, repo} per string of `repositories` in order; otherwise
\* None.
C1_PartitionsAsStated ==
    partsOut # Unset =>
        IF "searches" \in DOMAIN config THEN SearchPartitionsInOrder
        ELSE IF "repositories" \in DOMAIN config
        THEN /\ partsOut.kind = "return"
             /\ Len(partsOut.value) = Len(config.repositories)
             /\ \A i \in 1..Len(config.repositories) :
                   DOMAIN partsOut.value[i] = {"org", "repo"}
        ELSE partsOut = ReturnNone

\* C1 amended: as stated, except that with `repositories` alone the list of
\* {org, repo} partitions (org the text before the first "/", repo the text
\* after it up to the next "/") is returned only when every string holds a
\* "/"; when one holds none, the evaluation raises and returns nothing.
C1_Partitions ==
    partsOut # Unset =>
        IF "searches" \in DOMAIN config THEN SearchPartitionsInOrder
        ELSE IF "repositories" \in DOMAIN config
        THEN IF \A i \in 1..Len(config.repositories) :
                    SlashPositions(config.repositories[i]) # {}
             THEN /\ partsOut.kind = "return"
                  /\ Len(partsOut.value) = Len(config.repositories)
                  /\ \A i \in 1..Len(config.repositories) :
                        partsOut.value[i] =
                            [org |-> BeforeFirstSlash(config.repositories[i]),
                             repo |-> AfterFirstSlash(config.repositories[i])]
             ELSE partsOut.kind = "raise"
        ELSE partsOut = ReturnNone

\* both keys configured, one entry each: the searches win
C1_Witness ==
    /\ DOMAIN config = {"searches", "repositories"}
    /\ Len(config.searches) = 1
    /\ Len(config.repositories) = 1
    /\ partsOut.kind = "return"

\* exactly one "/", with text on both sides of it
WellFormed(s) ==
    /\ Cardinality(SlashPositions(s)) = 1
    /\ s[1] # Slash
    /\ s[Len(s)] # Slash

\* C2: in direct mode every configured string either gives the partition of
\* its two non-empty segments around its only "/", or the resolution ends in
\* an error; a malformed string never gives a partition.
C2_MalformedNeverPartition ==
    ("searches" \notin DOMAIN config /\ "repositories" \in DOMAIN config
        /\ partsOut.kind = "return") =>
    \A i \in 1..Len(config.repositories) :
        /\ WellFormed(config.repositories[i])
        /\ partsOut.value[i] = [org |-> BeforeFirstSlash(config.repositories[i]),
                                repo |-> AfterFirstSlash(config.repositories[i])]

----------------------------------------------------------------------------
(* Properties of the sync and of the stream methods (Spec)                 *)

\* the context key of the counter that gates a stream
CounterKey(stream) ==
    IF stream = "issue_comments" THEN "comments" ELSE "events"

GatedStreams == {"events", "issue_events", "issue_comments"}

\* C3: get_records of a gated stream, called with a context whose counter
\* key is present and 0, returns no record and makes no fetch; called with a
\* context without the key or with a nonzero counter, or with no context, it
\* makes the normal fetch and returns what the fetch yields.
C3_SkipOnZeroCounter ==
    (lastCall # Unset /\ lastCall.op = "get_records"
        /\ lastCall.stream \in GatedStreams) =>
    LET context == lastCall.context
        key == CounterKey(lastCall.stream)
    IN  IF context # None /\ key \in DOMAIN context /\ context[key] = 0
        THEN lastCall.out.records = <<>> /\ lastCall.out.fetches = 0
        ELSE lastCall.out.records = lastCall.upstream /\ lastCall.out.fetches = 1

\* issue_events called with events = 0 beside a nonzero comments counter,
\* while the upstream has records: nothing is fetched
C3_Witness ==
    /\ lastCall # Unset
    /\ lastCall.op = "get_records"
    /\ lastCall.stream = "issue_events"
    /\ lastCall.context = [org |-> <<"octo">>, repo |-> <<"hello-world">>,
                           events |-> 0, comments |-> 5]
    /\ lastCall.upstream # <<>>
    /\ lastCall.out.fetches = 0

\* C4: once the issues stream has read an issue with comments = 0 under a
\* root record, the issue_comments stream is entered with the context
\* derived from that issue, yields no record and makes no request.
C4_ZeroCommentsSkipsComments ==
    (/\ lastEntry # Unset
     /\ lastEntry.stream = "issue_comments"
     /\ \E c \in issueCtxs : c["comments"] = 0) =>
    /\ lastEntry.context \in {c \in issueCtxs : c["comments"] = 0}
    /\ lastEntry.records = <<>>
    /\ lastEntry.fetches = 0

\* C5 as stated: no hop drops a key of the context it was given.
C5_NoHopDropsAKey ==
    \A i \in 1..Len(hops) :
        hops[i].parent # None => DOMAIN hops[i].parent \subseteq DOMAIN hops[i].child

\* C5 amended: the hop of the issues stream keeps every key of the context
\* it was given and changes the value of none but issue_number and comments;
\* the hop of the root stream returns exactly {org, repo}: of the keys of the
\* partition context it keeps org and repo and drops search_name and
\* search_query.
C5_HopKeys ==
    \A i \in 1..Len(hops) :
        IF hops[i].stream = "issues"
        THEN /\ DOMAIN hops[i].parent \subseteq DOMAIN hops[i].child
             /\ \A k \in DOMAIN hops[i].parent \ {"issue_number", "comments"} :
                   hops[i].child[k] = hops[i].parent[k]
        ELSE DOMAIN hops[i].child = {"org", "repo"}

\* under a search partition, the second hop of the issues stream: its parent
\* context already carries the keys of the first hop
C5_Witness ==
    /\ "searches" \in DOMAIN config
    /\ Len(hops) = 2
    /\ hops[2].stream = "issues"
    /\ "issue_number" \in DOMAIN hops[2].parent

HasRootKeys(c) ==
    /\ c # None
    /\ "org" \in DOMAIN c
    /\ "repo" \in DOMAIN c
    /\ c["org"] = curRecord["owner"]["login"]
    /\ c["repo"] = curRecord["name"]

\* C6: every context below the root (the one the children of a root record
\* are entered with, and every one a later hop derives from it) has org and
\* repo equal to the owner.login and name of that root record.
C6_RootKeysUnchanged ==
    curRecord # Unset =>
        /\ HasRootKeys(childCtx)
        /\ \A c \in issueCtxs : HasRootKeys(c)
        /\ lastEntry # Unset => HasRootKeys(lastEntry.context)
        /\ \A i \in 1..Len(hops) : HasRootKeys(hops[i].child)

\* the partition names octo/hello-world, the upstream answers acme/api, and
\* two issues have been read under that record
C6_Witness ==
    /\ "repositories" \in DOMAIN config
    /\ "searches" \notin DOMAIN config
    /\ pc = "children"
    /\ curRecord["owner"]["login"] = <<"acme">>
    /\ ctxList[pidx]["org"] = <<"octo">>
    /\ Cardinality(issueCtxs) = 2

\* C7: with no context, IssuesStream.get_child_context raises and returns no
\* child context, and RepositoryStream.get_url_params raises and returns no
\* parameters; a sync whose root stream has no partition ends aborted at
\* its first request, with no request made, no record emitted and no child
\* context derived.
C7_NoContextFails ==
    /\ (lastCall # Unset /\ lastCall.op \in {"get_child_context", "get_url_params"}
            /\ lastCall.context = None) =>
          /\ lastCall.out.kind = "raise"
          /\ "value" \notin DOMAIN lastCall.out
    /\ (ctxList = <<None>> /\ pc # "partition") =>
          /\ pc = "aborted"
          /\ error # ""
          /\ rootReq = Unset
          /\ rootEmitted = 0
          /\ curRecord = Unset
          /\ childCtx = Unset

\* neither key configured: the sync is aborted at the first root request
C7_Witness ==
    /\ config = EmptyDict
    /\ partsOut = ReturnNone
    /\ pc = "aborted"
    /\ error = "AssertionError"

ReposUrl(context) == <<"/", "repos", "/">> \o context["org"] \o <<"/">> \o context["repo"]

\* C8: path, locator and parse follow the same condition.  With `searches`
\* the request goes to /search/repositories, the locator is $.items[*] and
\* the records are the elements of `items` of the body; without it the
\* request goes to /repos/{org}/{repo} of the partition and the body is the
\* one record.  repositories = ["octo/hello-world"] gives the one partition
\* {org: octo, repo: hello-world}, the url /repos/octo/hello-world and one
\* record.
C8_ModeAgreement ==
    /\ rootReq # Unset =>
          IF "searches" \in DOMAIN config
          THEN /\ rootReq.url = SearchPath
               /\ path(config) = SearchPath
               /\ records_jsonpath(config) = "$.items[*]"
               /\ "items" \in DOMAIN rootBody
               /\ rootEmitted + Len(rootRecs) = Len(rootBody.items)
               /\ \A i \in 1..Len(rootRecs) :
                     rootRecs[i] = rootBody.items[rootEmitted + i]
               /\ (pc = "children" => curRecord = rootBody.items[rootEmitted])
          ELSE /\ rootReq.url = ReposUrl(rootReq.context)
               /\ rootEmitted + Len(rootRecs) = 1
               /\ (rootRecs # <<>> => rootRecs = <<rootBody>>)
               /\ (rootEmitted = 1 => curRecord = rootBody)
    /\ config = [repositories |-> <<OctoHelloWorld>>] =>
          /\ partsOut # Unset =>
                partsOut = Return(<<[org |-> <<"octo">>, repo |-> <<"hello-world">>]>>)
          /\ rootReq # Unset =>
                rootReq.url = <<"/", "repos", "/", "octo", "/", "hello-world">>
          /\ pc = "done" => rootEmitted = 1

\* the sync of repositories = ["octo/hello-world"] has ended
C8_Witness ==
    /\ config = [repositories |-> <<OctoHelloWorld>>]
    /\ pc = "done"
    /\ rootEmitted = 1
    /\ rootReq.url = <<"/", "repos", "/", "octo", "/", "hello-world">>

----------------------------------------------------------------------------
(* Properties of search paging (SpecSearch)                                *)

\* C9: a search partition never yields more than 1000 records and never
\* requests more than 10 pages, however many matches the upstream reports;
\* once 1000 records are yielded no further page is requested.
C9_SearchCeiling ==
    /\ sYielded <= 1000
    /\ sRequests <= 10
    /\ sYielded >= 1000 => sState = "done"

\* the upstream reports more than 1000 matches and the paging has ended
C9_Witness ==
    /\ sTotal > 1000
    /\ sState = "done"
    /\ sYielded = 1000
    /\ sRequests = 10

----------------------------------------------------------------------------
(* Properties of the bookmarks (SpecBookmarks)                             *)

SamePartition(c, d) == c["org"] = d["org"] /\ c["repo"] = d["repo"]

\* C10: for every (org, repo) partition the bookmark never decreases; a
\* record raises the bookmark of its own partition, and only when its
\* replication key value is greater, and leaves the bookmark of every other
\* partition as it was.
C10_BookmarksMonotonic ==
    [][\A c \in RepoPartitions :
          LET before == BookmarkOf(bookmarks, c)
              after == BookmarkOf(bookmarks', c)
          IN  /\ after >= before
              /\ after # before =>
                    /\ SamePartition(c, lastObs'.context)
                    /\ lastObs'.value > before
                    /\ after = lastObs'.value
              /\ (SamePartition(c, lastObs'.context) /\ lastObs'.value > before) =>
                    after = lastObs'.value]_vars

\* a record older than the bookmark of its partition has been observed after
\* records of another repository of the same org
C10_Witness ==
    /\ lastObs # Unset
    /\ lastObs.value < BookmarkOf(bookmarks, lastObs.context)
    /\ \E c \in RepoPartitions :
          /\ c["org"] = lastObs.context["org"]
          /\ c["repo"] # lastObs.context["repo"]
          /\ BookmarkOf(bookmarks, c) > 0
          /\ BookmarkOf(bookmarks, c) # BookmarkOf(bookmarks, lastObs.context)

----------------------------------------------------------------------------
(* Properties of record post-processing (Spec)                             *)

Renamed == {"repo", "org", "target_repo", "target_org"}

\* C11: EventsStream.post_process, on a record that has both repo and org,
\* returns a record whose target_repo is the input's repo and whose
\* target_org is the input's org, that has neither a repo nor an org key,
\* and whose other fields are those of the input, unchanged; on a record
\* without repo or without org it raises and returns no record.
C11_PostProcessRenames ==
    (lastCall # Unset /\ lastCall.op = "post_process") =>
    LET row == lastCall.row
        out == lastCall.out
    IN  IF {"repo", "org"} \subseteq DOMAIN row
        THEN /\ out.kind = "return"
             /\ out.value["target_repo"] = row["repo"]
             /\ out.value["target_org"] = row["org"]
             /\ "repo" \notin DOMAIN out.value
             /\ "org" \notin DOMAIN out.value
             /\ DOMAIN out.value \ Renamed = DOMAIN row \ Renamed
             /\ \A k \in DOMAIN row \ Renamed : out.value[k] = row[k]
        ELSE /\ out.kind = "raise"
             /\ "value" \notin DOMAIN out

\* a record with further fields and a target_repo of its own, other than
\* its repo, has been post-processed
C11_Witness ==
    /\ lastCall # Unset
    /\ lastCall.op = "post_process"
    /\ DOMAIN lastCall.row = EventKeys
    /\ lastCall.row["target_repo"] # lastCall.row["repo"]
    /\ lastCall.out.kind = "return"
    /\ lastCall.out.value["target_repo"] = lastCall.row["repo"]

----------------------------------------------------------------------------
(* Properties of the context dicts (SpecContexts)                          *)

IssueKeys == {"issue_number", "comments"}

\* C12: over a sequence of get_child_context calls of the issues stream
\* under one repository context, the child context derived for an earlier
\* issue still holds that issue's issue_number and comments after the
\* child context of a later issue has been derived, and the context passed
\* in is left without issue_number and comments: each call builds a dict of
\* its own and shares none.
C12_EachHopOwnContext ==
    \A i \in 1..Len(derived) :
        LET call == derived[i]
        IN  /\ call.child # 0
            /\ heap[call.child]["issue_number"] = call.record["number"]
            /\ heap[call.child]["comments"] = call.record["comments"]
            /\ call.child # call.context
            /\ DOMAIN heap[call.context] \cap IssueKeys
                  = DOMAIN call.before \cap IssueKeys
            /\ \A j \in 1..Len(derived) : i # j => derived[j].child # call.child

====
